---- MODULE Spec2Model ----
(***************************************************************************)
(* A model of the agent-test demo scripts: the tool callbacks              *)
(* (get_animal_info, get_static_map, fetch_map_image_and_interpret,        *)
(* get_soil_ph_image, get_loc, get_weather), the start-up sequence of the  *)
(* scripts, and the Gradio chat callbacks (stream_from_agent,              *)
(* handle_retry, undo).  Each component has its own specification.         *)
(***************************************************************************)
EXTENDS Integers, Sequences, FiniteSets, TLC

VARIABLES
    \* ---- wikipedia_animal_qa.py: get_animal_info ----
    w_pc,              \* "idle" | "search_wait" | "content_wait" | "returned" | "raised"
    animal_name,       \* argument of the running call
    http_log,          \* requests issued through ctx.deps.client.get in this call
    search_response,   \* response received for the search request (NoResponse before)
    content_response,  \* response received for the extract request (NoResponse before)
    w_result,          \* value returned / exception propagated by the call
    \* ---- geo_agent.py: fetch_map_image_and_interpret, maptools.py: get_static_map ----
    g_pc,              \* "idle" | "called" | "map_wait" | "reader_wait" | "returned" | "raised"
    g_args,            \* lat, lon, zoom, maptype of the running call
    maps_api_key,      \* value of os.getenv("GOOGLE_MAPS_API_KEY")
    map_request,       \* params of the request get_static_map issued (None: no request)
    map_response,      \* reply to that request (NoResponse before it is in)
    m_outcome,         \* how get_static_map ended (None while it has not)
    reader_calls,      \* images map_reader_agent.run was invoked with in this call
    g_result,          \* value returned / exception propagated by the tool
    \* ---- soil_agent.py: get_soil_ph_image ----
    s_pc,              \* "idle" | "fetching" | "returned" | "raised"
    s_bbox,            \* west, south, east, north of the running call
    coverage_request,  \* arguments of soil_grids.get_coverage_data (None: not called)
    coverage_outcome,  \* how get_coverage_data ended (None while it has not)
    s_result,          \* value returned / exception propagated by the tool
    \* ---- weather.at.py: get_loc, get_weather ----
    x_pc,              \* "idle" | "geocode_wait" | "weather_wait" | "returned" | "raised"
    x_call,            \* tool called and its arguments
    loc,               \* result of geo.geocode (None: no match)
    x_events,          \* what the call did so far: geocode, parse, fetch
    x_result,          \* value returned / exception propagated by the tool
    \* ---- module level of the five scripts ----
    sc_script,         \* the script being run ("none": no run)
    sc_i,              \* index of its next top-level statement
    env_key,           \* CBORG_API_KEY in the process environment
    dotenv_key,        \* CBORG_API_KEY in the .env file
    api_key,           \* the module global api_key (Unbound: never assigned)
    provider_key,      \* api_key the OpenAIProvider was constructed with
    sc_events,         \* the statements executed so far, in order
    sc_error,          \* exception that ended the script (None: none)
    \* ---- wikipedia_animal_qa.py: the Gradio chat demo ----
    prompt_ui,         \* the prompt textbox: interactive, value
    chatbot_ui,        \* value of the gr.Chatbot component
    past_messages_ui,  \* value of the gr.State past_messages
    c_op,              \* handler running or run last: "none" | "submit" | "retry" | "undo"
    c_status,          \* "none" | "running" | "completed" | "failed"
    c_pc,              \* "idle" | "run_stream" | "messages" | "text"
    c_index,           \* retry_data.index / undo_data.index of the handler
    given_chatbot,     \* the chatbot list as it was when handed to the handler
    given_past,        \* the past_messages list as it was when handed to the handler
    h_chatbot,         \* that chatbot list object, as it is now
    h_past,            \* that past_messages list object, as it is now
    prompt,            \* stream_from_agent: prompt
    chatbot,           \* stream_from_agent: chatbot
    message_history,   \* stream_from_agent: past_messages, given to run_stream
    new_messages,      \* result.new_messages()
    msg_i,             \* position of the loop of line 134
    streamed,          \* number of texts result.stream_text() has produced
    updates,           \* what the handler has yielded / returned so far
    run_id,            \* number of agent runs started
    turn_msgs          \* per run, the messages it added to the history

w_vars == <<w_pc, animal_name, http_log, search_response, content_response, w_result>>
g_vars == <<g_pc, g_args, maps_api_key, map_request, map_response, m_outcome, reader_calls, g_result>>

s_vars == <<s_pc, s_bbox, coverage_request, coverage_outcome, s_result>>
x_vars == <<x_pc, x_call, loc, x_events, x_result>>

sc_vars == <<sc_script, sc_i, env_key, dotenv_key, api_key, provider_key, sc_events, sc_error>>

c_vars == <<prompt_ui, chatbot_ui, past_messages_ui, c_op, c_status, c_pc, c_index,
            given_chatbot, given_past, h_chatbot, h_past, prompt, chatbot,
            message_history, new_messages, msg_i, streamed, updates, run_id, turn_msgs>>

vars == <<w_vars, g_vars, s_vars, x_vars, sc_vars, c_vars>>

w_others == <<g_vars, s_vars, x_vars, sc_vars, c_vars>>
g_others == <<w_vars, s_vars, x_vars, sc_vars, c_vars>>
s_others == <<w_vars, g_vars, x_vars, sc_vars, c_vars>>
x_others == <<w_vars, g_vars, s_vars, sc_vars, c_vars>>
sc_others == <<w_vars, g_vars, s_vars, x_vars, c_vars>>
c_others == <<w_vars, g_vars, s_vars, x_vars, sc_vars>>

\* ------------------------------------------------------------------ helpers

Min(a, b) == IF a <= b THEN a ELSE b

\* Python s[:n] for n >= 0
Take(s, n) == SubSeq(s, 1, Min(n, Len(s)))

\* all sequences over S of length 0..n
SeqUpTo(S, n) == UNION {[1..k -> S] : k \in 0..n}

\* a text of n characters (characters are small integers)
Text(n) == [i \in 1..n |-> i % 5]

None == [none |-> TRUE]

\* ------------------------------------------------------------------ bounds

MaxResults == 2      \* longest search-result list the upstream returns
MaxPages == 2        \* most pages in the "pages" object of an extract reply
MaxMeta == 2         \* most items in the metadata of a soil coverage
MaxRuns == 2         \* agent runs started in the chat demo
MaxChunks == 2       \* texts one stream_text() produces

\* ====================================================================
\* wikipedia_animal_qa.py : get_animal_info
\* ====================================================================

TruncLen == 800

AnimalNames == {"tiger", "blue whale"}
Titles == {"Tiger", "Panthera"}
NoTitle == "<result without title key>"
Extracts == {<<>>, Text(3), Text(TruncLen), Text(TruncLen + 1)}
\* a page object of the extract reply: with or without an "extract" key
Pages == {[has_extract |-> FALSE, extract |-> <<>>]}
         \cup {[has_extract |-> TRUE, extract |-> e] : e \in Extracts}

NoResponse == [net |-> "none"]

\* JSON documents the search endpoint may answer with
SearchBodies ==
    {[shape |-> "malformed"], [shape |-> "no_query"]}
    \cup {[shape |-> "results", search |-> s] : s \in SeqUpTo(Titles \cup {NoTitle}, MaxResults)}

\* JSON documents the extract endpoint may answer with
ContentBodies ==
    {[shape |-> "malformed"], [shape |-> "no_query"]}
    \cup {[shape |-> "pages", pages |-> p] : p \in SeqUpTo(Pages, MaxPages)}

StatusCodes == {200, 404}
StatusText(s) == IF s = 404 THEN "404 Not Found" ELSE "200 OK"

Responses(Bodies) ==
    {[net |-> "fail"]} \cup {[net |-> "ok", status |-> s, body |-> b] : s \in StatusCodes, b \in Bodies}

\* exceptions; all of these are subclasses of Exception
Exc(type, msg) == [exc |-> type, msg |-> msg]
ExceptionTypes == {"ConnectError", "HTTPStatusError", "JSONDecodeError", "KeyError", "StopIteration"}

Ret(v) == [ret |-> v]
Raised(x) == "exc" \in DOMAIN x

\* f-strings: a template and the interpolated values
FStr(template, args) == [template |-> template, args |-> args]

\* response = await client.get(...); response.raise_for_status(); response.json()
\* -> Ret(document) or an exception
HttpJson(resp) ==
    IF resp.net = "fail" THEN Exc("ConnectError", "connect failed")
    ELSE IF ~(resp.status >= 200 /\ resp.status < 300) THEN Exc("HTTPStatusError", StatusText(resp.status))
    ELSE IF resp.body.shape = "malformed" THEN Exc("JSONDecodeError", "Expecting value")
    ELSE Ret(resp.body)

\* The handler `except Exception as e` : which exception classes it catches
CatchesHttpOnly(e) == e.exc \in {"ConnectError", "HTTPStatusError"}

Catches(e) == e.exc \in ExceptionTypes

\* try: body  except Exception as e: return f"Error retrieving ...{animal_name}: {str(e)}"
TryExcept(outcome, name) ==
    IF Raised(outcome) /\ Catches(outcome)
    THEN Ret(FStr("Error retrieving information about {}: {}", <<name, outcome.msg>>))
    ELSE outcome

\* Lines 75-83: what the function does with the search response:
\* an exception, an early return, or the page title to go on with
PickLastTitle(search) == search[Len(search)]

PickTitle(search) == search[1]

AfterSearch(resp, name) ==
    LET data == HttpJson(resp) IN
    IF Raised(data) THEN data
    ELSE IF data.ret.shape = "no_query" THEN Exc("KeyError", "query")
    ELSE IF data.ret.search = <<>> THEN Ret(FStr("No information found for {}.", <<name>>))
    ELSE IF PickTitle(data.ret.search) = NoTitle THEN Exc("KeyError", "title")
    ELSE [page_title |-> PickTitle(data.ret.search)]

\* Lines 94-106: what the function does with the extract response
Truncate(extract) == Take(extract, TruncLen)

AfterContent(resp, page_title) ==
    LET data == HttpJson(resp) IN
    IF Raised(data) THEN data
    ELSE IF data.ret.shape = "no_query" THEN Exc("KeyError", "query")
    ELSE IF data.ret.pages = <<>> THEN Exc("StopIteration", "")
    ELSE LET page == data.ret.pages[1]
             extract == IF page.has_extract THEN page.extract ELSE <<>>
         IN  IF extract = <<>>
             THEN Ret(FStr("Found page {} but couldn't extract any information.", <<page_title>>))
             ELSE Ret(FStr("Information about {} from Wikipedia:\n\n{}...",
                           <<page_title, Truncate(extract)>>))

SearchRequest(name) == [kind |-> "search", srsearch |-> <<name, " animal">>]
ContentRequest(title) == [kind |-> "extracts", titles |-> title]

\* The tool is called: the search request is issued (line 75)
WikiCall ==
    /\ UNCHANGED w_others
    /\ w_pc = "idle"
    /\ \E name \in AnimalNames :
        /\ animal_name' = name
        /\ http_log' = <<SearchRequest(name)>>
    /\ w_pc' = "search_wait"
    /\ search_response' = NoResponse
    /\ content_response' = NoResponse
    /\ w_result' = None

\* Finish the call with an outcome of the try body
WikiFinish(outcome) ==
    LET final == TryExcept(outcome, animal_name) IN
    /\ w_pc' = IF Raised(final) THEN "raised" ELSE "returned"
    /\ w_result' = IF Raised(final) THEN final ELSE final.ret

\* The search request completes (lines 75-94)
WikiSearchReturns ==
    /\ UNCHANGED w_others
    /\ w_pc = "search_wait"
    /\ \E resp \in Responses(SearchBodies) :
        /\ search_response' = resp
        /\ LET step == AfterSearch(resp, animal_name) IN
            IF "page_title" \in DOMAIN step
            THEN /\ http_log' = Append(http_log, ContentRequest(step.page_title))
                 /\ w_pc' = "content_wait"
                 /\ UNCHANGED w_result
            ELSE /\ WikiFinish(step)
                 /\ UNCHANGED http_log
    /\ UNCHANGED <<animal_name, content_response>>

\* The extract request completes (lines 94-108)
WikiContentReturns ==
    /\ UNCHANGED w_others
    /\ w_pc = "content_wait"
    /\ \E resp \in Responses(ContentBodies) :
        /\ content_response' = resp
        /\ WikiFinish(AfterContent(resp, http_log[2].titles))
    /\ UNCHANGED <<animal_name, http_log, search_response>>

\* The agent framework takes the result; the tool may be called again
WikiDone ==
    /\ UNCHANGED w_others
    /\ w_pc \in {"returned", "raised"}
    /\ w_pc' = "idle"
    /\ animal_name' = "tiger"
    /\ http_log' = <<>>
    /\ search_response' = NoResponse
    /\ content_response' = NoResponse
    /\ w_result' = None

WikiInit ==
    /\ w_pc = "idle"
    /\ animal_name = "tiger"
    /\ http_log = <<>>
    /\ search_response = NoResponse
    /\ content_response = NoResponse
    /\ w_result = None

WikiNext == WikiCall \/ WikiSearchReturns \/ WikiContentReturns \/ WikiDone

\* ====================================================================
\* maptools.py : get_static_map ; geo_agent.py : fetch_map_image_and_interpret
\* ====================================================================

Unset == "<unset>"
MapsKeys == {Unset, "", "AIza-key"}
Lats == {35, 36}
Lons == {-84}
Zooms == {13, 18}
MapTypes == {"satellite", "roadmap"}

\* image payloads (bytes as small integers); a reply body may be empty
ImageBytes == {<<>>, <<137, 80, 78, 71>>}
MapStatusCodes == {200, 300, 404, 500}
MapResponses ==
    {[net |-> "fail"]} \cup {[net |-> "ok", status |-> s, content |-> c] : s \in MapStatusCodes, c \in ImageBytes}

\* Python truthiness of the environment value: `if not api_key`
KeyMissing(key) == key = Unset \/ key = ""

\* lines 27-34: the query parameters
MapParams(a, key) ==
    [center |-> <<a.lat, a.lon>>, zoom |-> a.zoom, size |-> <<600, 400>>,
     markers |-> <<"red", a.lat, a.lon>>, maptype |-> a.maptype, key |-> key]

\* requests: get raises ConnectionError, raise_for_status raises HTTPError
\* for a 4xx or 5xx status; both are RequestException
MapFetch(resp) ==
    IF resp.net = "fail" THEN Exc("ConnectionError", "connection failed")
    ELSE IF resp.status >= 400 /\ resp.status < 600 THEN Exc("HTTPError", "status")
    ELSE Ret(resp.content)

\* `except requests.RequestException`
CatchesConnectionOnly(e) == e.exc = "ConnectionError"

IsRequestException(e) == e.exc \in {"ConnectionError", "HTTPError"}

\* lines 37-43: the outcome of get_static_map once the reply is in
MapOutcome(resp) ==
    LET got == MapFetch(resp) IN
    IF Raised(got)
    THEN IF IsRequestException(got) THEN [kind |-> "none"]
         ELSE [kind |-> "raised", exc |-> got.exc]
    ELSE [kind |-> "bytes", data |-> got.ret]

\* BinaryContent(data=img_bytes, media_type='image/png')
BinaryContent(outcome) ==
    IF outcome.kind = "none" THEN [data |-> None, has_data |-> FALSE, media_type |-> "image/png"]
    ELSE [data |-> outcome.data, has_data |-> TRUE, media_type |-> "image/png"]

\* `not img` of a dataclass instance: BinaryContent defines neither __bool__
\* nor __len__, so an instance is always true
ImgTruthy(img) == TRUE

\* The agent framework calls the tool (line 69)
GeoCall ==
    /\ UNCHANGED g_others
    /\ g_pc = "idle"
    /\ \E lat \in Lats, lon \in Lons, zoom \in Zooms, maptype \in MapTypes, key \in MapsKeys :
        /\ g_args' = [lat |-> lat, lon |-> lon, zoom |-> zoom, maptype |-> maptype]
        /\ maps_api_key' = key
    /\ g_pc' = "called"
    /\ map_request' = None
    /\ map_response' = NoResponse
    /\ m_outcome' = None
    /\ reader_calls' = <<>>
    /\ g_result' = None

\* get_static_map lines 21-38: read the key, raise ValueError or issue the request
MapStart ==
    /\ UNCHANGED g_others
    /\ g_pc = "called"
    /\ IF KeyMissing(maps_api_key)
       THEN /\ m_outcome' = [kind |-> "raised", exc |-> "ValueError"]
            /\ g_result' = Exc("ValueError", "GOOGLE_MAPS_API_KEY environment variable not set")
            /\ g_pc' = "raised"
            /\ UNCHANGED map_request
       ELSE /\ map_request' = MapParams(g_args, maps_api_key)
            /\ g_pc' = "map_wait"
            /\ UNCHANGED <<m_outcome, g_result>>
    /\ UNCHANGED <<g_args, maps_api_key, map_response, reader_calls>>

\* get_static_map lines 38-43 , then fetch_map_image_and_interpret lines 70-76
MapReturns ==
    /\ UNCHANGED g_others
    /\ g_pc = "map_wait"
    /\ \E resp \in MapResponses :
        LET outcome == MapOutcome(resp) IN
        /\ map_response' = resp
        /\ m_outcome' = outcome
        /\ IF outcome.kind = "raised"
           THEN /\ g_result' = Exc(outcome.exc, "")
                /\ g_pc' = "raised"
                /\ UNCHANGED reader_calls
           ELSE LET img == BinaryContent(outcome) IN
                IF ~ImgTruthy(img)
                THEN /\ g_result' = Exc("ModelRetry", "Could not find image for structure")
                     /\ g_pc' = "raised"
                     /\ UNCHANGED reader_calls
                ELSE /\ reader_calls' = Append(reader_calls, img)
                     /\ g_pc' = "reader_wait"
                     /\ UNCHANGED g_result
    /\ UNCHANGED <<g_args, maps_api_key, map_request>>

Descriptions == {<<"lake">>, <<"lake", "forest">>}

\* map_reader_agent.run ends (lines 74-83): r.data is returned, or the run raises
ReaderReturns ==
    /\ UNCHANGED g_others
    /\ g_pc = "reader_wait"
    /\ \/ \E d \in Descriptions : g_result' = Ret(d) /\ g_pc' = "returned"
       \/ g_result' = Exc("AgentRunError", "") /\ g_pc' = "raised"
    /\ UNCHANGED <<g_args, maps_api_key, map_request, map_response, m_outcome, reader_calls>>

GeoDone ==
    /\ UNCHANGED g_others
    /\ g_pc \in {"returned", "raised"}
    /\ g_pc' = "idle"
    /\ g_args' = None
    /\ maps_api_key' = Unset
    /\ map_request' = None
    /\ map_response' = NoResponse
    /\ m_outcome' = None
    /\ reader_calls' = <<>>
    /\ g_result' = None

GeoInit ==
    /\ g_pc = "idle"
    /\ g_args = None
    /\ maps_api_key = Unset
    /\ map_request = None
    /\ map_response = NoResponse
    /\ m_outcome = None
    /\ reader_calls = <<>>
    /\ g_result = None

GeoNext == GeoCall \/ MapStart \/ MapReturns \/ ReaderReturns \/ GeoDone

\* ====================================================================
\* soil_agent.py : get_soil_ph_image
\* ====================================================================

Wests == {-1784000, 0}
Norths == {1863000, 10}
BBoxes == {[west |-> w, south |-> 0, east |-> 5, north |-> n] : w \in Wests, n \in Norths}

MetaKeys == {"crs", "width", "height"}
MetaValues == {"EPSG", "316"}

\* a metadata dict, in insertion order: pairs <<key, value>> with distinct keys
IsDict(d) == \A i, j \in DOMAIN d : i # j => d[i][1] # d[j][1]
Metadatas == {d \in SeqUpTo(MetaKeys \X MetaValues, MaxMeta) : IsDict(d)}

\* how soil_grids.get_coverage_data can end: it raises, or it sets
\* soil_grids.metadata (to a dict, or leaves it without items: None)
SoilExceptionTypes == {"HTTPError", "ValueError", "ConnectionError"}
CoverageOutcomes ==
    {[kind |-> "raised", exc |-> t] : t \in SoilExceptionTypes}
    \cup {[kind |-> "ok", has_items |-> FALSE, metadata |-> <<>>]}
    \cup {[kind |-> "ok", has_items |-> TRUE, metadata |-> d] : d \in Metadatas}

\* "\n".join(lines), strings as sequences of pieces
RECURSIVE JoinLines(_)
JoinLines(lines) ==
    IF lines = <<>> THEN <<>>
    ELSE IF Len(lines) = 1 THEN lines[1]
    ELSE lines[1] \o <<"\n">> \o JoinLines(Tail(lines))

\* f"{key}: {value}"
MetaLine(item) == <<item[1], ": ", item[2]>>

\* lines 65-69: f"Metadata summary:\n{metadata_summary}"
MetadataSummary(metadata) ==
    <<"Metadata summary:", "\n">> \o JoinLines([i \in DOMAIN metadata |-> MetaLine(metadata[i])])

SoilErrorString == <<"An error occurred while fetching soil pH data.">>

\* `except Exception`
SoilCatchesHttpOnly(e) == e \in {"HTTPError", "ConnectionError"}

SoilCatches(e) == e \in SoilExceptionTypes \cup {"AttributeError"}

\* lines 50-73: the try body and its handler, once get_coverage_data ended
SoilBody(outcome) ==
    IF outcome.kind = "raised" THEN Exc(outcome.exc, "")
    ELSE IF ~outcome.has_items THEN Exc("AttributeError", "'NoneType' object has no attribute 'items'")
    ELSE Ret(MetadataSummary(outcome.metadata))

SoilTryExcept(body) ==
    IF Raised(body) /\ SoilCatches(body.exc) THEN Ret(SoilErrorString) ELSE body

CoverageRequest(b) ==
    [service_id |-> "phh2o", coverage_id |-> "phh2o_0-5cm_mean", west |-> b.west,
     south |-> b.south, east |-> b.east, north |-> b.north,
     crs |-> "urn:ogc:def:crs:EPSG::152160", output |-> "soil_ph_map.tif"]

\* the tool is called and get_coverage_data is entered (lines 50-62)
SoilCall ==
    /\ UNCHANGED s_others
    /\ s_pc = "idle"
    /\ \E b \in BBoxes :
        /\ s_bbox' = b
        /\ coverage_request' = CoverageRequest(b)
    /\ s_pc' = "fetching"
    /\ coverage_outcome' = None
    /\ s_result' = None

\* get_coverage_data ends; summary or handler (lines 62-73)
SoilReturns ==
    /\ UNCHANGED s_others
    /\ s_pc = "fetching"
    /\ \E outcome \in CoverageOutcomes :
        LET final == SoilTryExcept(SoilBody(outcome)) IN
        /\ coverage_outcome' = outcome
        /\ s_pc' = IF Raised(final) THEN "raised" ELSE "returned"
        /\ s_result' = IF Raised(final) THEN <<final.exc>> ELSE final.ret
    /\ UNCHANGED <<s_bbox, coverage_request>>

SoilDone ==
    /\ UNCHANGED s_others
    /\ s_pc \in {"returned", "raised"}
    /\ s_pc' = "idle"
    /\ s_bbox' = None
    /\ coverage_request' = None
    /\ coverage_outcome' = None
    /\ s_result' = None

SoilInit ==
    /\ s_pc = "idle"
    /\ s_bbox = None
    /\ coverage_request = None
    /\ coverage_outcome = None
    /\ s_result = None

SoilNext == SoilCall \/ SoilReturns \/ SoilDone

\* ====================================================================
\* weather.at.py : get_loc, get_weather
\* ====================================================================

LocationStrings == {"kalamazoo", "berkeley", "nowhere at all"}
\* date expressions and what dateutil's parser.parse makes of them
DateStrings == {"2024-02-14", "2024-02-21", "soon"}
ParseDate(d) ==
    IF d = "2024-02-14" THEN Ret(<<2024, 2, 14>>)
    ELSE IF d = "2024-02-21" THEN Ret(<<2024, 2, 21>>)
    ELSE Exc("ParserError", "Unknown string format")

\* what geo.geocode may answer: None, or a Location
Locations == {[latitude |-> 42, longitude |-> -85], [latitude |-> 0, longitude |-> 0]}
GeocodeResults == {None} \cup {[match |-> l] : l \in Locations}
Pending == [pending |-> TRUE]

\* line 47: return loc.latitude, loc.longitude
GetLocValidated(l) ==
    IF l = None THEN Ret(None) ELSE Ret(<<l.match.latitude, l.match.longitude>>)

GetLocReturn(l) ==
    IF l = None THEN Exc("AttributeError", "'NoneType' object has no attribute 'latitude'")
    ELSE Ret(<<l.match.latitude, l.match.longitude>>)

XCalls ==
    {[tool |-> "get_loc", location_string |-> l] : l \in LocationStrings}
    \cup {[tool |-> "get_weather", location_string |-> l, start_date |-> a, end_date |-> b] :
            l \in LocationStrings, a \in DateStrings, b \in DateStrings}

WeatherData == {[tavg |-> 1], [tavg |-> 2]}

\* a tool is called; geo.geocode is entered (line 44, or line 60 through get_loc)
WeatherCall ==
    /\ UNCHANGED x_others
    /\ x_pc = "idle"
    /\ \E c \in XCalls : x_call' = c
    /\ x_pc' = "geocode_wait"
    /\ loc' = Pending
    /\ x_events' = <<"geocode">>
    /\ x_result' = None

\* geo.geocode answers: rest of get_loc (lines 45-47), then for get_weather
\* lines 60-64 up to the fetch
GeocodeReturns ==
    /\ UNCHANGED x_others
    /\ x_pc = "geocode_wait"
    /\ \E r \in GeocodeResults :
        LET got == GetLocReturn(r)
            ev == x_events
        IN
        /\ loc' = r
        /\ IF Raised(got)
           THEN /\ x_result' = got /\ x_pc' = "raised" /\ x_events' = ev
           ELSE IF x_call.tool = "get_loc"
           THEN /\ x_result' = got /\ x_pc' = "returned" /\ x_events' = ev
           ELSE LET st == ParseDate(x_call.start_date)
                    end == ParseDate(x_call.end_date)
                IN  IF Raised(st)
                    THEN /\ x_result' = st /\ x_pc' = "raised"
                         /\ x_events' = ev \o <<"parse">>
                    ELSE IF Raised(end)
                    THEN /\ x_result' = end /\ x_pc' = "raised"
                         /\ x_events' = ev \o <<"parse", "parse">>
                    ELSE /\ x_result' = None /\ x_pc' = "weather_wait"
                         /\ x_events' = ev \o <<"parse", "parse", "fetch">>
    /\ UNCHANGED x_call

\* Daily(pt, st, end).fetch() ends (lines 64-68)
WeatherReturns ==
    /\ UNCHANGED x_others
    /\ x_pc = "weather_wait"
    /\ \/ \E d \in WeatherData : x_result' = Ret(d) /\ x_pc' = "returned"
       \/ x_result' = Exc("HTTPError", "") /\ x_pc' = "raised"
    /\ UNCHANGED <<x_call, loc, x_events>>

WeatherDone ==
    /\ UNCHANGED x_others
    /\ x_pc \in {"returned", "raised"}
    /\ x_pc' = "idle"
    /\ x_call' = None
    /\ loc' = Pending
    /\ x_events' = <<>>
    /\ x_result' = None

WeatherInit ==
    /\ x_pc = "idle"
    /\ x_call = None
    /\ loc = Pending
    /\ x_events = <<>>
    /\ x_result = None

WeatherNext == WeatherCall \/ GeocodeReturns \/ WeatherReturns \/ WeatherDone

\* ====================================================================
\* module level of the scripts: the top-level statements, in file order
\* ====================================================================

Unbound == "<unbound>"
PyNone == "<None>"
NotBuilt == "<not built>"
EnvKeys == {Unset, "", "sk-env"}
DotenvKeys == {Unset, "sk-file"}

\* hello_world.py lines 5-19
HelloWorld == <<"model", "agent", "run", "print">>
\* geo_agent.py lines 11-85
GeoAgent == <<"getenv", "model", "agent", "tool", "agent", "tool", "run">>
\* soil_agent.py lines 8-77
SoilAgent == <<"logging", "getenv", "validate", "model", "agent", "client", "tool", "run">>
\* weather.at.py lines 10-77
WeatherAt == <<"getenv", "validate", "client", "model", "agent", "tool", "tool", "run", "print">>
\* wikipedia_animal_qa.py lines 25-246
WikipediaAnimalQa == <<"dotenv", "getenv", "validate", "model", "agent", "tool", "client", "ui", "launch">>

Scripts == {"hello_world", "geo_agent", "soil_agent", "weather.at", "wikipedia_animal_qa"}
Statements(script) ==
    CASE script = "hello_world" -> HelloWorld
      [] script = "geo_agent" -> GeoAgent
      [] script = "soil_agent" -> SoilAgent
      [] script = "weather.at" -> WeatherAt
      [] script = "wikipedia_animal_qa" -> WikipediaAnimalQa

Running == sc_script # "none" /\ sc_error = None /\ sc_i <= Len(Statements(sc_script))
AtStatement(kind) == Running /\ Statements(sc_script)[sc_i] = kind

Advance(kind) ==
    /\ sc_i' = sc_i + 1
    /\ sc_events' = Append(sc_events, kind)

Crash(kind, exc) ==
    /\ sc_error' = [exc |-> exc]
    /\ sc_events' = Append(sc_events, kind)
    /\ UNCHANGED sc_i

\* python <script>: a fresh interpreter, no module global assigned
ScriptStart ==
    /\ UNCHANGED sc_others
    /\ sc_script = "none"
    /\ \E script \in Scripts, e \in EnvKeys, d \in DotenvKeys :
        /\ sc_script' = script
        /\ env_key' = e
        /\ dotenv_key' = d
    /\ sc_i' = 1
    /\ api_key' = Unbound
    /\ provider_key' = NotBuilt
    /\ sc_events' = <<>>
    /\ sc_error' = None

\* dotenv.load_dotenv(): a variable of the .env file is set unless the
\* environment already has it
LoadDotenv ==
    /\ UNCHANGED sc_others
    /\ AtStatement("dotenv")
    /\ env_key' = IF env_key = Unset THEN dotenv_key ELSE env_key
    /\ Advance("dotenv")
    /\ UNCHANGED <<sc_script, dotenv_key, api_key, provider_key, sc_error>>

\* api_key = os.getenv("CBORG_API_KEY")
ReadKey ==
    /\ UNCHANGED sc_others
    /\ AtStatement("getenv")
    /\ api_key' = IF env_key = Unset THEN PyNone ELSE env_key
    /\ Advance("getenv")
    /\ UNCHANGED <<sc_script, env_key, dotenv_key, provider_key, sc_error>>

\* if not api_key: raise ValueError(...)
ValidateKey ==
    /\ UNCHANGED sc_others
    /\ AtStatement("validate")
    /\ IF api_key = PyNone \/ api_key = ""
       THEN Crash("validate", "ValueError")
       ELSE Advance("validate") /\ UNCHANGED sc_error
    /\ UNCHANGED <<sc_script, env_key, dotenv_key, api_key, provider_key>>

\* ai_model = OpenAIModel(..., provider=OpenAIProvider(..., api_key=api_key))
ConstructModel ==
    /\ UNCHANGED sc_others
    /\ AtStatement("model")
    /\ IF api_key = Unbound
       THEN Crash("model", "NameError") /\ UNCHANGED provider_key
       ELSE Advance("model") /\ provider_key' = api_key /\ UNCHANGED sc_error
    /\ UNCHANGED <<sc_script, env_key, dotenv_key, api_key>>

\* every other top-level statement: Agent(...), tool registration, client
\* construction, run_sync(...), print, UI
OtherStatement ==
    /\ UNCHANGED sc_others
    /\ \E kind \in {"agent", "tool", "client", "logging", "run", "print", "ui", "launch"} :
        /\ AtStatement(kind)
        /\ Advance(kind)
    /\ UNCHANGED <<sc_script, env_key, dotenv_key, api_key, provider_key, sc_error>>

\* the interpreter exits
ScriptEnd ==
    /\ UNCHANGED sc_others
    /\ sc_script # "none"
    /\ ~Running
    /\ sc_script' = "none"
    /\ sc_i' = 1
    /\ env_key' = Unset
    /\ dotenv_key' = Unset
    /\ api_key' = Unbound
    /\ provider_key' = NotBuilt
    /\ sc_events' = <<>>
    /\ sc_error' = None

ScriptInit ==
    /\ sc_script = "none"
    /\ sc_i = 1
    /\ env_key = Unset
    /\ dotenv_key = Unset
    /\ api_key = Unbound
    /\ provider_key = NotBuilt
    /\ sc_events = <<>>
    /\ sc_error = None

ScriptNext == ScriptStart \/ LoadDotenv \/ ReadKey \/ ValidateKey \/ ConstructModel
              \/ OtherStatement \/ ScriptEnd

\* ====================================================================
\* wikipedia_animal_qa.py : stream_from_agent, handle_retry, undo
\* ====================================================================

Prompts == {<<"Tell me about the tiger.">>, <<"And the blue whale?">>}

\* tool call ids: the provider gives every call of a run its own id, or none
IdNone == [run |-> 0, n |-> 0]          \* tool_call_id is None
IdAbsent == [run |-> 0, n |-> -1]       \* "" : the default of .get("id", "")
CallId(run, n) == [run |-> run, n |-> n]

\* texts are sequences of pieces; "" is <<>>
\* chat entries (dicts of the chatbot list); title "" : no metadata
Entry(role, content, title, id, run) ==
    [role |-> role, content |-> content, title |-> title, id |-> id, run |-> run]
UserEntry(p, run) == Entry("user", p, "", IdAbsent, run)

\* agent messages and their parts
Part(kind, tool_name, args, id, content) ==
    [part_kind |-> kind, tool_name |-> tool_name, args |-> args, tool_call_id |-> id, content |-> content]
ToolCallPart(id) == Part("tool-call", "get_animal_info", "{\"animal_name\": \"tiger\"}", id, <<>>)
ToolReturnPart(id) == Part("tool-return", "get_animal_info", "", id, <<"Information about Tiger">>)
Message(kind, parts, run) == [kind |-> kind, parts |-> parts, run |-> run]

\* what one agent run can add to the history before its final text: the
\* request with the prompt, then per round of tool calls a response with the
\* calls and a request with their returns
RunShapes == {"no_tool", "one_call", "one_call_no_id", "two_calls"}
ShapeIds(shape, run) ==
    CASE shape = "no_tool" -> <<>>
      [] shape = "one_call" -> <<CallId(run, 1)>>
      [] shape = "one_call_no_id" -> <<IdNone>>
      [] shape = "two_calls" -> <<CallId(run, 1), CallId(run, 2)>>

NewMessages(shape, p, history, run) ==
    LET ids == ShapeIds(shape, run)
        first == IF history = <<>>
                 THEN <<Part("system-prompt", "", "", IdNone, <<"You are a helpful assistant">>),
                        Part("user-prompt", "", "", IdNone, p)>>
                 ELSE <<Part("user-prompt", "", "", IdNone, p)>>
    IN  <<Message("request", first, run)>>
        \o (IF ids = <<>> THEN <<>>
            ELSE <<Message("response", [k \in DOMAIN ids |-> ToolCallPart(ids[k])], run),
                   Message("request", [k \in DOMAIN ids |-> ToolReturnPart(ids[k])], run)>>)

\* the texts of result.stream_text(): each is the whole text so far
AllChunks == <<"The tiger", " is a", " large cat", ".">>
StreamedText(k) == Take(AllChunks, k)

\* result.all_messages() once the text stream has ended
AllMessages(history, new, k, run) ==
    history \o new \o <<Message("response", <<Part("text", "", "", IdNone, StreamedText(k))>>, run)>>

\* TOOL_TO_DISPLAY_NAME.get(call.tool_name, call.tool_name)
DisplayName(tool_name) == IF tool_name = "get_animal_info" THEN "Wikipedia API" ELSE tool_name

\* lines 136-156: the chat entry of a tool call
ToolCallEntry(call, run) ==
    Entry("assistant", <<"Parameters: ", call.args>>, "Using " \o DisplayName(call.tool_name),
          IF call.tool_call_id # IdNone THEN call.tool_call_id ELSE IdAbsent, run)

\* lines 157-160: the output of a tool return is added to the matching entries
\* .get("id") without the "" default: an entry without id reads as None
MatchesDefaultNone(entry, ret) ==
    (IF entry.id = IdAbsent THEN IdNone ELSE entry.id) = ret.tool_call_id

Matches(entry, ret) == entry.id = ret.tool_call_id

ApplyReturn(cb, ret) ==
    [k \in DOMAIN cb |->
        IF Matches(cb[k], ret)
        THEN [cb[k] EXCEPT !.content = @ \o <<"\nOutput: ", "\"">> \o ret.content \o <<"\"">>]
        ELSE cb[k]]

\* lines 135-160: all parts of one message, in order
RECURSIVE ApplyParts(_, _, _)
ApplyParts(cb, parts, run) ==
    IF parts = <<>> THEN cb
    ELSE LET part == Head(parts)
             cb1 == IF part.part_kind = "tool-call" THEN Append(cb, ToolCallEntry(part, run)) ELSE cb
             cb2 == IF part.part_kind = "tool-return" THEN ApplyReturn(cb1, part) ELSE cb1
         IN  ApplyParts(cb2, Tail(parts), run)

\* an update of the outputs [prompt, chatbot, past_messages]; gr.skip() is
\* a component not set
NoTextbox == [interactive |-> FALSE, value |-> <<"<skip>">>]
Update(tb_set, tb, cb_set, cb, pm_set, pm) ==
    [textbox_set |-> tb_set, textbox |-> tb, chatbot_set |-> cb_set, chatbot |-> cb,
     past_set |-> pm_set, past |-> pm]

\* line 131: gr.Textbox(interactive=False, value=""), chatbot, gr.skip()
FirstYieldEnabled(cb) == Update(TRUE, [interactive |-> TRUE, value |-> <<>>], TRUE, cb, FALSE, <<>>)

FirstYield(cb) == Update(TRUE, [interactive |-> FALSE, value |-> <<>>], TRUE, cb, FALSE, <<>>)
\* lines 161, 166: gr.skip(), chatbot, gr.skip()
ChatYield(cb) == Update(FALSE, NoTextbox, TRUE, cb, FALSE, <<>>)
\* line 169: gr.Textbox(interactive=True), gr.skip(), past_messages
LastYield(pm) == Update(TRUE, [interactive |-> TRUE, value |-> prompt_ui.value], FALSE, <<>>, TRUE, pm)

\* Gradio applies an update to the components
ApplyUpdate(u) ==
    /\ prompt_ui' = IF u.textbox_set THEN u.textbox ELSE prompt_ui
    /\ chatbot_ui' = IF u.chatbot_set THEN u.chatbot ELSE chatbot_ui
    /\ past_messages_ui' = IF u.past_set THEN u.past ELSE past_messages_ui

\* the event index Gradio hands to retry and undo: the (0-based) position of
\* the last user message
UserIndices(cb) == {i \in 0..(Len(cb) - 1) : cb[i + 1].role = "user"}
LastUserIndex(cb) == CHOOSE i \in UserIndices(cb) : \A j \in UserIndices(cb) : j <= i

\* the list object handed to the handler, after the handler's list `cb` (a
\* slice that shares its first `shared` dicts, or the very same list) changed
SameList(op) == op = "submit"
Aliased(list, cb, op, shared) ==
    IF SameList(op) THEN cb
    ELSE [k \in DOMAIN list |-> IF k <= shared /\ k <= Len(cb) THEN cb[k] ELSE list[k]]

\* lines 130-131: stream_from_agent starts on prompt p, list cb, history pm
StreamStart(op, p, cb, pm) ==
    LET cb1 == Append(cb, UserEntry(p, run_id + 1)) IN
    /\ run_id' = run_id + 1
    /\ prompt' = p
    /\ chatbot' = cb1
    /\ message_history' = pm
    /\ ApplyUpdate(FirstYield(cb1))
    /\ updates' = <<FirstYield(cb1)>>
    /\ c_op' = op
    /\ c_status' = "running"
    /\ c_pc' = "run_stream"
    /\ new_messages' = <<>>
    /\ msg_i' = 1
    /\ streamed' = 0
    /\ UNCHANGED turn_msgs

\* prompt.submit(stream_from_agent, [prompt, chatbot, past_messages], ...)
ChatSubmit ==
    /\ UNCHANGED c_others
    /\ c_pc = "idle"
    /\ prompt_ui.interactive
    /\ run_id < MaxRuns
    /\ \E p \in Prompts :
        /\ StreamStart("submit", p, chatbot_ui, past_messages_ui)
        /\ h_chatbot' = Append(chatbot_ui, UserEntry(p, run_id + 1))
    /\ given_chatbot' = chatbot_ui
    /\ given_past' = past_messages_ui
    /\ h_past' = past_messages_ui
    /\ c_index' = 0

\* lines 176-178 of handle_retry
RetryHistoryKeepsPrompt(cb, i) == Take(cb, i + 1)

RetryHistory(cb, i) == Take(cb, i)

\* chatbot.retry(handle_retry, [chatbot, past_messages], ...): lines 176-179
ChatRetry ==
    /\ UNCHANGED c_others
    /\ c_pc = "idle"
    /\ UserIndices(chatbot_ui) # {}
    /\ run_id < MaxRuns
    /\ LET i == LastUserIndex(chatbot_ui)
           new_history == RetryHistory(chatbot_ui, i)
           previous_prompt == chatbot_ui[i + 1].content
       IN  /\ StreamStart("retry", previous_prompt, new_history, Take(past_messages_ui, i))
           /\ c_index' = i
           /\ h_chatbot' = Aliased(chatbot_ui, Append(new_history, UserEntry(previous_prompt, run_id + 1)),
                                   "retry", i)
    /\ given_chatbot' = chatbot_ui
    /\ given_past' = past_messages_ui
    /\ h_past' = past_messages_ui

\* chatbot.undo(undo, [chatbot, past_messages], ...): lines 187-189
ChatUndo ==
    /\ UNCHANGED c_others
    /\ c_pc = "idle"
    /\ UserIndices(chatbot_ui) # {}
    /\ LET i == LastUserIndex(chatbot_ui)
           new_history == Take(chatbot_ui, i)
           ret == Update(TRUE, [interactive |-> prompt_ui.interactive, value |-> chatbot_ui[i + 1].content],
                         TRUE, new_history, TRUE, Take(past_messages_ui, i))
       IN  /\ ApplyUpdate(ret)
           /\ updates' = <<ret>>
           /\ c_index' = i
    /\ c_op' = "undo"
    /\ c_status' = "completed"
    /\ given_chatbot' = chatbot_ui
    /\ given_past' = past_messages_ui
    /\ h_chatbot' = chatbot_ui
    /\ h_past' = past_messages_ui
    /\ UNCHANGED <<c_pc, prompt, chatbot, message_history, new_messages, msg_i, streamed, run_id, turn_msgs>>

\* line 133: the run is started and reaches its final response
RunStreamEnter ==
    /\ UNCHANGED c_others
    /\ c_pc = "run_stream"
    /\ \E shape \in RunShapes :
        new_messages' = NewMessages(shape, prompt, message_history, run_id)
    /\ c_pc' = "messages"
    /\ msg_i' = 1
    /\ UNCHANGED <<prompt_ui, chatbot_ui, past_messages_ui, c_op, c_status, c_index, given_chatbot,
                   given_past, h_chatbot, h_past, prompt, chatbot, message_history, streamed,
                   updates, run_id, turn_msgs>>

\* line 133: the run raises (model or network error); the generator ends
ChatStreamFails ==
    /\ UNCHANGED c_others
    /\ c_pc = "run_stream"
    /\ c_pc' = "idle"
    /\ c_status' = "failed"
    /\ UNCHANGED <<prompt_ui, chatbot_ui, past_messages_ui, c_op, c_index, given_chatbot,
                   given_past, h_chatbot, h_past, prompt, chatbot, message_history, new_messages,
                   msg_i, streamed, updates, run_id, turn_msgs>>

\* lines 134-161: one message of result.new_messages(), then the yield
ProcessMessage ==
    /\ UNCHANGED c_others
    /\ c_pc = "messages"
    /\ msg_i <= Len(new_messages)
    /\ LET cb == ApplyParts(chatbot, new_messages[msg_i].parts, run_id) IN
        /\ chatbot' = cb
        /\ h_chatbot' = Aliased(h_chatbot, cb, c_op, c_index)
        /\ ApplyUpdate(ChatYield(cb))
        /\ updates' = Append(updates, ChatYield(cb))
    /\ msg_i' = msg_i + 1
    /\ UNCHANGED <<c_op, c_status, c_pc, c_index, given_chatbot, given_past, h_past, prompt,
                   message_history, new_messages, streamed, run_id, turn_msgs>>

\* line 163: the entry of the final answer
BeginText ==
    /\ UNCHANGED c_others
    /\ c_pc = "messages"
    /\ msg_i > Len(new_messages)
    /\ LET cb == Append(chatbot, Entry("assistant", <<>>, "", IdAbsent, run_id)) IN
        /\ chatbot' = cb
        /\ h_chatbot' = Aliased(h_chatbot, cb, c_op, c_index)
    /\ c_pc' = "text"
    /\ UNCHANGED <<prompt_ui, chatbot_ui, past_messages_ui, c_op, c_status, c_index, given_chatbot,
                   given_past, h_past, prompt, message_history, new_messages, msg_i, streamed,
                   updates, run_id, turn_msgs>>

\* lines 164-166: one text of result.stream_text()
TextChunk ==
    /\ UNCHANGED c_others
    /\ c_pc = "text"
    /\ streamed < MaxChunks
    /\ LET cb == [chatbot EXCEPT ![Len(chatbot)].content = StreamedText(streamed + 1)] IN
        /\ chatbot' = cb
        /\ h_chatbot' = Aliased(h_chatbot, cb, c_op, c_index)
        /\ ApplyUpdate(ChatYield(cb))
        /\ updates' = Append(updates, ChatYield(cb))
    /\ streamed' = streamed + 1
    /\ UNCHANGED <<c_op, c_status, c_pc, c_index, given_chatbot, given_past, h_past, prompt,
                   message_history, new_messages, msg_i, run_id, turn_msgs>>

\* lines 168-169: the text stream has ended (a text answer streams at least
\* one text)
StreamEnd ==
    /\ UNCHANGED c_others
    /\ c_pc = "text"
    /\ streamed >= 1
    /\ LET all == AllMessages(message_history, new_messages, streamed, run_id) IN
        /\ ApplyUpdate(LastYield(all))
        /\ updates' = Append(updates, LastYield(all))
        /\ turn_msgs' = [turn_msgs EXCEPT ![run_id] = SubSeq(all, Len(message_history) + 1, Len(all))]
    /\ c_pc' = "idle"
    /\ c_status' = "completed"
    /\ UNCHANGED <<c_op, c_index, given_chatbot, given_past, h_chatbot, h_past, prompt, chatbot,
                   message_history, new_messages, msg_i, streamed, run_id>>

ChatInit ==
    /\ prompt_ui = [interactive |-> TRUE, value |-> <<>>]
    /\ chatbot_ui = <<>>
    /\ past_messages_ui = <<>>
    /\ c_op = "none"
    /\ c_status = "none"
    /\ c_pc = "idle"
    /\ c_index = 0
    /\ given_chatbot = <<>>
    /\ given_past = <<>>
    /\ h_chatbot = <<>>
    /\ h_past = <<>>
    /\ prompt = <<>>
    /\ chatbot = <<>>
    /\ message_history = <<>>
    /\ new_messages = <<>>
    /\ msg_i = 1
    /\ streamed = 0
    /\ updates = <<>>
    /\ run_id = 0
    /\ turn_msgs = [t \in 1..(MaxRuns + 1) |-> <<>>]

ChatRunsNext == ChatSubmit \/ ChatRetry \/ ChatUndo \/ RunStreamEnter \/ ProcessMessage
                \/ BeginText \/ TextChunk \/ StreamEnd

ChatNext == ChatRunsNext \/ ChatStreamFails

\* ====================================================================
\* specifications
\* ====================================================================

Init == WikiInit /\ GeoInit /\ SoilInit /\ WeatherInit /\ ScriptInit /\ ChatInit

SpecWiki == Init /\ [][WikiNext]_vars
SpecGeo == Init /\ [][GeoNext]_vars
SpecSoil == Init /\ [][SoilNext]_vars
SpecWeather == Init /\ [][WeatherNext]_vars
SpecScripts == Init /\ [][ScriptNext]_vars
SpecChat == Init /\ [][ChatNext]_vars
SpecChatRuns == Init /\ [][ChatRunsNext]_vars

\* -------------------------------------------------------------- claims C1, C2

SearchSucceeded(resp) ==
    /\ resp.net = "ok"
    /\ resp.status >= 200 /\ resp.status < 300
    /\ resp.body.shape = "results"
    /\ resp.body.search # <<>>

\* C1: the extract request is issued only after the search request has
\* returned successfully with at least one result, it is the second request
\* of the call and asks for the title of the first search result; when the
\* search failed or returned no result, no extract request is issued.
C1_SearchThenExtract ==
    /\ Len(http_log) <= 2
    /\ http_log # <<>> => http_log[1] = SearchRequest(animal_name)
    /\ \A k \in DOMAIN http_log :
        http_log[k].kind = "extracts" =>
            /\ k = 2
            /\ SearchSucceeded(search_response)
            /\ http_log[k].titles = search_response.body.search[1]
    /\ (search_response # NoResponse /\ ~SearchSucceeded(search_response)) =>
            \A k \in DOMAIN http_log : http_log[k].kind # "extracts"
    /\ w_pc = "search_wait" => Len(http_log) = 1 /\ search_response = NoResponse
    /\ w_pc = "content_wait" => Len(http_log) = 2

C1_Witness ==
    /\ w_pc = "content_wait"
    /\ Len(search_response.body.search) = 2
    /\ search_response.body.search[1] # search_response.body.search[2]
    /\ http_log[2].titles = "Panthera"

IsSummary(s) == s.template = "Information about {} from Wikipedia:\n\n{}..."

\* C2 as stated: the call returns (never raises) and the returned string is
\* a summary of at most 800 characters of extract or a fixed string, that is
\* one with no interpolated value.
C2_FixedStrings ==
    /\ w_pc # "raised"
    /\ w_pc = "returned" =>
        \/ IsSummary(w_result) /\ Len(w_result.args[2]) <= TruncLen
        \/ w_result.args = <<>>

FirstExtract == content_response.body.pages[1].extract

\* C2 amended: the call returns (never raises) and the returned string is
\* the summary template filled with the page title and the first 800
\* characters of the extract, or one of three message templates filled with
\* the animal name, the page title, or the animal name and the exception text.
C2_ReturnsString ==
    /\ w_pc # "raised"
    /\ w_pc = "returned" =>
        \/ /\ IsSummary(w_result)
           /\ w_result.args = <<http_log[2].titles, Take(FirstExtract, TruncLen)>>
           /\ Len(w_result.args[2]) <= TruncLen
        \/ /\ w_result.template = "No information found for {}."
           /\ w_result.args = <<animal_name>>
        \/ /\ w_result.template = "Found page {} but couldn't extract any information."
           /\ w_result.args = <<http_log[2].titles>>
        \/ /\ w_result.template = "Error retrieving information about {}: {}"
           /\ Len(w_result.args) = 2
           /\ w_result.args[1] = animal_name

C2_Witness ==
    /\ w_pc = "returned"
    /\ IsSummary(w_result)
    /\ Len(FirstExtract) = TruncLen + 1
    /\ Len(w_result.args[2]) = TruncLen

\* -------------------------------------------------------------- claims C3, C8

UpstreamFailed(resp) == resp.net = "fail" \/ ~(resp.status >= 200 /\ resp.status < 300)

\* C3 as stated: get_static_map ends with the bytes of the reply when the
\* upstream request succeeds, with None when it fails (connection error or
\* non-2xx status), and never with a raised exception.
C3_BytesOrNone ==
    m_outcome # None =>
        /\ m_outcome.kind \in {"bytes", "none"}
        /\ map_response # NoResponse
        /\ m_outcome.kind = "none" <=> UpstreamFailed(map_response)
        /\ m_outcome.kind = "bytes" => m_outcome.data = map_response.content

RequestRejected(resp) == resp.net = "fail" \/ (resp.status >= 400 /\ resp.status < 600)

\* C3 amended: with GOOGLE_MAPS_API_KEY unset or empty get_static_map raises
\* ValueError before any request is issued; with the key set it issues one
\* request and ends with None when the request raised a RequestException
\* (connection error, or a 4xx/5xx status rejected by raise_for_status) and
\* with the bytes of the reply otherwise, never with a raised exception.
C3_BytesNoneOrValueError ==
    m_outcome # None =>
        IF KeyMissing(maps_api_key)
        THEN /\ m_outcome = [kind |-> "raised", exc |-> "ValueError"]
             /\ map_request = None
             /\ map_response = NoResponse
        ELSE /\ map_request = MapParams(g_args, maps_api_key)
             /\ map_response # NoResponse
             /\ m_outcome.kind \in {"bytes", "none"}
             /\ m_outcome.kind = "none" <=> RequestRejected(map_response)
             /\ m_outcome.kind = "bytes" => m_outcome.data = map_response.content

C3_Witness ==
    /\ m_outcome # None
    /\ m_outcome.kind = "none"
    /\ map_response.net = "ok"
    /\ map_response.status = 500

\* C8: whenever get_static_map returned no image the tool raises
\* ModelRetry("Could not find image for structure") and the map-reader agent
\* is not invoked; the map-reader agent is only ever run with image bytes.
C8_RetryWhenNoImage ==
    /\ (m_outcome # None /\ m_outcome.kind = "none") =>
            /\ g_pc = "raised"
            /\ g_result = Exc("ModelRetry", "Could not find image for structure")
            /\ reader_calls = <<>>
    /\ \A k \in DOMAIN reader_calls : reader_calls[k].has_data

\* -------------------------------------------------------------- claims C4, C5

C5_NoMatchRaises ==
    (x_pc \notin {"idle", "geocode_wait"} /\ loc = None) =>
        /\ x_pc = "raised"
        /\ x_result.exc = "AttributeError"
        /\ x_events = <<"geocode">>

C5_Witness ==
    /\ x_pc = "raised"
    /\ loc = None
    /\ x_call.tool = "get_weather"
    /\ x_call.start_date = "soon"

\* -------------------------------------------------------------- claim C6

Before(a, b, k) == sc_events[k] = b => \E j \in 1..(k - 1) : sc_events[j] = a

\* C6: every script reads the API key from the environment, then constructs
\* the model/provider handle with that key, then the agent, then runs its
\* prompt; no script constructs the handle from a key it has not read from
\* the environment before.
C6_StartupOrder ==
    /\ \A k \in DOMAIN sc_events :
        /\ Before("getenv", "model", k)
        /\ Before("model", "agent", k)
        /\ Before("agent", "run", k)
    /\ provider_key # NotBuilt =>
        provider_key = IF env_key = Unset THEN PyNone ELSE env_key

\* -------------------------------------------------------------- claims C7, C9, C10

InStream == c_op \in {"submit", "retry"}
\* length of the chat history stream_from_agent started on
Base == IF c_op = "retry" THEN c_index ELSE Len(given_chatbot)
IsToolEntry(e) == e.role = "assistant" /\ e.title # ""
IsPlainAssistant(e) == e.role = "assistant" /\ e.title = ""

\* C7: the first update of a stream_from_agent call disables and clears the
\* textbox and shows the chat history with the user message as its last
\* entry; every later update leaves that user message in place and adds
\* after it only tool-call entries and then one final assistant entry; the
\* textbox is re-enabled, together with the new past_messages, in the last
\* update only, after the text stream has ended; and once the stream of a
\* call that disabled the textbox has completed the textbox is enabled.
C7_PromptFirstThenStream ==
    InStream =>
        /\ updates # <<>>
        /\ updates[1] = Update(TRUE, [interactive |-> FALSE, value |-> <<>>],
                               TRUE, Append(Take(given_chatbot, Base), UserEntry(prompt, run_id)),
                               FALSE, <<>>)
        /\ \A k \in DOMAIN updates :
            /\ updates[k].chatbot_set =>
                LET cb == updates[k].chatbot IN
                /\ Len(cb) > Base
                /\ Take(cb, Base) = Take(given_chatbot, Base)
                /\ cb[Base + 1] = UserEntry(prompt, run_id)
                /\ \A j \in (Base + 2)..Len(cb) :
                    \/ IsToolEntry(cb[j])
                    \/ IsPlainAssistant(cb[j]) /\ j = Len(cb)
                /\ (k > 1 /\ updates[k - 1].chatbot_set) =>
                    LET prev == updates[k - 1].chatbot IN
                    /\ Len(prev) <= Len(cb)
                    /\ (Len(prev) > Base + 1 /\ IsPlainAssistant(prev[Len(prev)])) =>
                            /\ Len(cb) = Len(prev)
                            /\ Take(cb, Len(cb) - 1) = Take(prev, Len(cb) - 1)
                /\ (Len(cb) > Base + 1 /\ IsPlainAssistant(cb[Len(cb)])) =>
                        \E n \in 1..streamed : cb[Len(cb)].content = StreamedText(n)
            /\ (k > 1 /\ updates[k].textbox_set) =>
                /\ updates[k].textbox.interactive
                /\ k = Len(updates)
                /\ c_status = "completed"
                /\ updates[k].past_set
                /\ ~updates[k].chatbot_set
            /\ updates[k].past_set =>
                /\ k = Len(updates)
                /\ updates[k].textbox_set
                /\ updates[k].past = AllMessages(message_history, new_messages, streamed, run_id)
                /\ c_pc = "idle"
        /\ c_status = "running" => ~prompt_ui.interactive
        /\ c_status = "completed" =>
            /\ prompt_ui.interactive
            /\ updates[Len(updates)].past_set
            /\ past_messages_ui = updates[Len(updates)].past

C7_Witness ==
    /\ c_op = "submit"
    /\ c_status = "completed"
    /\ Len(chatbot_ui) = 4
    /\ IsToolEntry(chatbot_ui[2]) /\ IsToolEntry(chatbot_ui[3])
    /\ chatbot_ui[4].content = StreamedText(2)
    /\ prompt_ui.interactive

ShownTurns == {chatbot_ui[k].run : k \in {j \in DOMAIN chatbot_ui : chatbot_ui[j].role = "user"}}
MessagesOf(t) == LET OfTurn(m) == m.run = t IN SelectSeq(past_messages_ui, OfTurn)

C10_HistoryMatchesChat ==
    c_pc = "idle" =>
        /\ \A k \in DOMAIN past_messages_ui : past_messages_ui[k].run \in ShownTurns
        /\ \A t \in ShownTurns : MessagesOf(t) = turn_msgs[t]

\* -------------------------------------------------------------- claim C11

\* the tool returns of the message the loop of line 134 is at
ReturnsAt(i) ==
    {new_messages[i].parts[j] :
        j \in {n \in DOMAIN new_messages[i].parts : new_messages[i].parts[n].part_kind = "tool-return"}}
OutputOf(ret) == <<"\nOutput: ", "\"">> \o ret.content \o <<"\"">>

====
